---- MODULE Spec2Model ----
(***************************************************************************)
(* ResNet-50 backbone of detection/models/backbones/resnet.py.             *)
(*                                                                         *)
(* A tensor is modelled by what the forward pass determines about it:      *)
(*   shape : <<batch, height, width, channels>>                            *)
(*   src   : the image it was computed from                                *)
(*   norm  : for every normalization layer it went through, the statistics *)
(*           that layer normalized it with: "batch" (the statistics of the *)
(*           batch, training behaviour) or the layer's running statistics  *)
(*           at that moment (inference behaviour).                         *)
(* Convolution kernels, gamma and beta are never assigned by this file, so *)
(* two tensors with the same shape, src and norm hold the same numbers.    *)
(* The running statistics of a normalization layer are the sequence of     *)
(* images whose batch statistics were folded into the moving averages.     *)
(***************************************************************************)
EXTENDS Integers, Sequences, FiniteSets, TLC

VARIABLES
    res,             \* ResNet50: block name -> the _Bottleneck held as self.res<block>
    stats,           \* running statistics of every BatchNormalization layer of the backbone
    learning_phase,  \* the Keras learning phase a layer reads when called without training=
    pc,              \* position of ResNet50.__call__: "idle", "stem", "unit", "return", "error"
    idx,             \* index in CallOrder of the next bottleneck unit to run
    inputs,          \* argument inputs of the running ResNet50.__call__
    training,        \* argument training of the running ResNet50.__call__
    x,               \* local x of ResNet50.__call__
    C,               \* locals C2, C3, C4, C5 of ResNet50.__call__
    ran,             \* blocks whose __call__ has run in this forward call, in order
    entry_stats,     \* stats when the running forward call was entered
    log,             \* the forward calls that returned: arguments, statistics on entry, result
    ncalls,          \* number of forward calls started
    inferred,        \* last result of ResNet50.compute_output_shape, with its argument
    blk,             \* a _Bottleneck constructed on its own
    ustats,          \* running statistics of blk's normalization layers
    ustate,          \* "none", "built", "called", "failed", "shaped"
    uin,             \* argument inputs of blk.__call__
    utraining,       \* argument training of blk.__call__
    uadd,            \* the two operands of blk's residual addition: <<main, shortcut>>
    uout,            \* tensor returned by blk.__call__
    ushape           \* shape returned by blk.compute_output_shape for uin's shape

vars == <<res, stats, learning_phase, pc, idx, inputs, training, x, C, ran,
          entry_stats, log, ncalls, inferred,
          blk, ustats, ustate, uin, utraining, uadd, uout, ushape>>

backbone_vars == <<res, stats, learning_phase, pc, idx, inputs, training, x, C, ran,
                   entry_stats, log, ncalls, inferred>>

unit_vars == <<blk, ustats, ustate, uin, utraining, uadd, uout, ushape>>

----------------------------------------------------------------------------
(* Bounds of the model *)

MaxCalls == 2        \* forward calls in one behaviour of Spec
MaxCallDim == 2      \* Spec feeds images of height and width 32 .. 32 + MaxCallDim - 1
MaxSmall == 3        \* SpecShapes: heights and widths 1 .. MaxSmall (not multiples of 32)
MaxMult == 2         \* SpecShapes: heights and widths 32, 64, .. 32 * MaxMult
MaxBatch == 1        \* SpecShapes: batch sizes 1 .. MaxBatch, and the demonstration's 2
MaxFilters == 2      \* SpecUnit: each of filters1, filters2, filters3 in 1 .. MaxFilters
MaxStride == 3       \* SpecUnit: stride in 1 .. MaxStride
MaxUnitDim == 3      \* SpecUnit: input height and width in 1 .. MaxUnitDim
MaxChan == 2         \* SpecUnit: input channels in 1 .. MaxChan

(* Program constants *)

DemoBatch == 2       \* tf.random_normal((2, 1024, 1024, 3))
DemoDim == 1024
ImageChannels == 3
Align == 32          \* the deepest stride factor of compute_output_shape

----------------------------------------------------------------------------
(* Tensors *)

NoImage == [shape |-> <<>>, data |-> 0]

NoTensor == [shape |-> <<>>, src |-> NoImage, norm |-> {}]

Image(n, h, w) == [shape |-> <<n, h, w, ImageChannels>>, data |-> 1]

AsTensor(img) == [shape |-> img.shape, src |-> img, norm |-> {}]

Ceil(a, b) == (a + b - 1) \div b

\* Output length of a Keras convolution or pooling window along one axis.
ConvOutputLength(len, kernel, stride, padding) ==
    IF padding = "same" THEN Ceil(len, stride)
    ELSE Ceil(len - kernel + 1, stride)

\* layers.Conv2D(filters, (kernel, kernel), strides=(stride, stride), padding=padding)(t)
Conv2D(t, filters, kernel, stride, padding) ==
    [t EXCEPT !.shape = << t.shape[1],
                           ConvOutputLength(t.shape[2], kernel, stride, padding),
                           ConvOutputLength(t.shape[3], kernel, stride, padding),
                           filters >>]

\* MaxPooling2D as it would be with padding='same' left out (Keras defaults to 'valid').
MaxPooling2DValid(t) ==
    [t EXCEPT !.shape = << t.shape[1],
                           ConvOutputLength(t.shape[2], 3, 2, "valid"),
                           ConvOutputLength(t.shape[3], 3, 2, "valid"),
                           t.shape[4] >>]

\* layers.MaxPooling2D((3, 3), strides=(2, 2), padding='same')(t)
MaxPooling2D(t) ==
    [t EXCEPT !.shape = << t.shape[1],
                           ConvOutputLength(t.shape[2], 3, 2, "same"),
                           ConvOutputLength(t.shape[3], 3, 2, "same"),
                           t.shape[4] >>]

\* tf.nn.relu(t): elementwise, so shape, source and normalization are kept.
Relu(t) == t

\* BatchNormalization(name=layer)(t, training=phase): the tensor returned.
\* In the training phase the batch's own statistics normalize it; otherwise the
\* layer's running statistics do.
BatchNormOut(layer, t, phase, st) ==
    [t EXCEPT !.norm = @ \cup {<<layer, IF phase THEN <<"batch">> ELSE <<"moving", st[layer]>> >>}]

\* BatchNormalization(name=layer)(t, training=phase): the running statistics after
\* the call. Only the training phase folds the batch into the moving averages.
BatchNormStats(layer, t, phase, st) ==
    IF phase THEN [st EXCEPT ![layer] = Append(@, t.src)] ELSE st

\* Broadcasting of one axis in the elementwise addition x + shortcut.
BroadcastOK(a, b) == a = b \/ a = 1 \/ b = 1

BroadcastDim(a, b) == IF a = 1 THEN b ELSE a

AddOK(a, b) == \A i \in 1..4 : BroadcastOK(a.shape[i], b.shape[i])

\* x += shortcut
Add(a, b) ==
    [shape |-> << BroadcastDim(a.shape[1], b.shape[1]), BroadcastDim(a.shape[2], b.shape[2]),
                  BroadcastDim(a.shape[3], b.shape[3]), BroadcastDim(a.shape[4], b.shape[4]) >>,
     src   |-> a.src,
     norm  |-> a.norm \cup b.norm]

----------------------------------------------------------------------------
(* _Bottleneck *)

\* _Bottleneck.__init__(filters, block, downsampling, stride)
Bottleneck(filters, block, downsampling, stride) ==
    [filters      |-> filters,
     block        |-> block,
     downsampling |-> downsampling,
     stride       |-> stride,
     out_channel  |-> filters[3]]

NoBlock == Bottleneck(<<0, 0, 0>>, "", FALSE, 0)

\* The BatchNormalization layers a unit owns: bn<block>_branch2a, 2b, 2c and,
\* with a projection shortcut, bn<block>_branch1.
BottleneckLayers(self) ==
    {<<self.block, br>> : br \in {"2a", "2b", "2c"}}
        \cup (IF self.downsampling THEN {<<self.block, "1">>} ELSE {})

\* MainPath as it would be with conv2c built with filters2 instead of filters3.
MainPathNoExpand(self, inp, train, st) ==
    LET a1 == Conv2D(inp, self.filters[1], 1, self.stride, "valid")
        a2 == Relu(BatchNormOut(<<self.block, "2a">>, a1, train, st))
        b1 == Conv2D(a2, self.filters[2], 3, 1, "same")
        b2 == Relu(BatchNormOut(<<self.block, "2b">>, b1, train, st))
        c1 == Conv2D(b2, self.filters[2], 1, 1, "valid")
    IN  BatchNormOut(<<self.block, "2c">>, c1, train, st)

\* x after bn2c: conv2a, bn2a, relu, conv2b, bn2b, relu, conv2c, bn2c
MainPath(self, inp, train, st) ==
    LET a1 == Conv2D(inp, self.filters[1], 1, self.stride, "valid")
        a2 == Relu(BatchNormOut(<<self.block, "2a">>, a1, train, st))
        b1 == Conv2D(a2, self.filters[2], 3, 1, "same")
        b2 == Relu(BatchNormOut(<<self.block, "2b">>, b1, train, st))
        c1 == Conv2D(b2, self.filters[3], 1, 1, "valid")
    IN  BatchNormOut(<<self.block, "2c">>, c1, train, st)

\* ShortcutPath as it would be with conv_shortcut built without strides=.
ShortcutPathNoStride(self, inp, train, st) ==
    IF self.downsampling
    THEN BatchNormOut(<<self.block, "1">>,
                      Conv2D(inp, self.filters[3], 1, 1, "valid"), train, st)
    ELSE inp

\* shortcut: conv_shortcut and bn_shortcut when downsampling, else the input
ShortcutPath(self, inp, train, st) ==
    IF self.downsampling
    THEN BatchNormOut(<<self.block, "1">>,
                      Conv2D(inp, self.filters[3], 1, self.stride, "valid"), train, st)
    ELSE inp

\* The running statistics after the unit's normalization layers were called.
BottleneckStats(self, inp, train, st) ==
    LET a1  == Conv2D(inp, self.filters[1], 1, self.stride, "valid")
        st1 == BatchNormStats(<<self.block, "2a">>, a1, train, st)
        st2 == BatchNormStats(<<self.block, "2b">>, a1, train, st1)
        st3 == BatchNormStats(<<self.block, "2c">>, a1, train, st2)
    IN  IF self.downsampling
        THEN BatchNormStats(<<self.block, "1">>, inp, train, st3)
        ELSE st3

\* _Bottleneck.__call__(inputs, training): the operands of the addition, whether
\* the addition is defined, the tensor returned and the statistics left behind.
BottleneckCall(self, inp, train, st) ==
    LET main     == MainPath(self, inp, train, st)
        shortcut == ShortcutPath(self, inp, train, st)
        ok       == AddOK(main, shortcut)
    IN  [ok       |-> ok,
         main     |-> main,
         shortcut |-> shortcut,
         out      |-> IF ok THEN Relu(Add(main, shortcut)) ELSE NoTensor,
         stats    |-> BottleneckStats(self, inp, train, st)]

\* _Bottleneck.compute_output_shape(input_shape)
BottleneckComputeOutputShape(self, shape) ==
    << shape[1], shape[2] \div self.stride, shape[3] \div self.stride, self.out_channel >>

----------------------------------------------------------------------------
(* ResNet50 *)

\* self.out_channel
out_channel == <<256, 512, 1024, 2048>>

\* ResNet50.__init__ as it would be with res3a built with stride=1.
ResNet50InitStride3a ==
    LET Plain(f, b) == Bottleneck(f, b, FALSE, 1)
    IN  [b \in {"2a"} |-> Bottleneck(<<64, 64, 256>>, "2a", TRUE, 1)]
     @@ [b \in {"2b", "2c"} |-> Plain(<<64, 64, 256>>, b)]
     @@ [b \in {"3a"} |-> Bottleneck(<<128, 128, 512>>, "3a", TRUE, 1)]
     @@ [b \in {"3b", "3c", "3d"} |-> Plain(<<128, 128, 512>>, b)]
     @@ [b \in {"4a"} |-> Bottleneck(<<256, 256, 1024>>, "4a", TRUE, 2)]
     @@ [b \in {"4b", "4c", "4d", "4e", "4f"} |-> Plain(<<256, 256, 1024>>, b)]
     @@ [b \in {"5a"} |-> Bottleneck(<<512, 512, 2048>>, "5a", TRUE, 2)]
     @@ [b \in {"5b", "5c"} |-> Plain(<<512, 512, 2048>>, b)]

\* ResNet50.__init__ as it would be with res4a built without downsampling=True.
ResNet50InitPlain4a ==
    LET Plain(f, b) == Bottleneck(f, b, FALSE, 1)
    IN  [b \in {"2a"} |-> Bottleneck(<<64, 64, 256>>, "2a", TRUE, 1)]
     @@ [b \in {"2b", "2c"} |-> Plain(<<64, 64, 256>>, b)]
     @@ [b \in {"3a"} |-> Bottleneck(<<128, 128, 512>>, "3a", TRUE, 2)]
     @@ [b \in {"3b", "3c", "3d"} |-> Plain(<<128, 128, 512>>, b)]
     @@ [b \in {"4a"} |-> Bottleneck(<<256, 256, 1024>>, "4a", FALSE, 2)]
     @@ [b \in {"4b", "4c", "4d", "4e", "4f"} |-> Plain(<<256, 256, 1024>>, b)]
     @@ [b \in {"5a"} |-> Bottleneck(<<512, 512, 2048>>, "5a", TRUE, 2)]
     @@ [b \in {"5b", "5c"} |-> Plain(<<512, 512, 2048>>, b)]

\* ResNet50.__init__: the sixteen units self.res2a .. self.res5c
\* (downsampling=False and stride=1 are the constructor's defaults).
ResNet50Init ==
    LET Plain(f, b) == Bottleneck(f, b, FALSE, 1)
    IN  [b \in {"2a"} |-> Bottleneck(<<64, 64, 256>>, "2a", TRUE, 1)]
     @@ [b \in {"2b", "2c"} |-> Plain(<<64, 64, 256>>, b)]
     @@ [b \in {"3a"} |-> Bottleneck(<<128, 128, 512>>, "3a", TRUE, 2)]
     @@ [b \in {"3b", "3c", "3d"} |-> Plain(<<128, 128, 512>>, b)]
     @@ [b \in {"4a"} |-> Bottleneck(<<256, 256, 1024>>, "4a", TRUE, 2)]
     @@ [b \in {"4b", "4c", "4d", "4e", "4f"} |-> Plain(<<256, 256, 1024>>, b)]
     @@ [b \in {"5a"} |-> Bottleneck(<<512, 512, 2048>>, "5a", TRUE, 2)]
     @@ [b \in {"5b", "5c"} |-> Plain(<<512, 512, 2048>>, b)]

\* self.bn_conv1
bn_conv1 == <<"", "conv1">>

\* Every BatchNormalization layer the backbone owns.
BackboneLayers(units) ==
    {bn_conv1} \cup UNION {BottleneckLayers(units[b]) : b \in DOMAIN units}

\* The call order as it would be with the lines of res4b and res4c exchanged.
CallOrderSwapped ==
    << "2a", "2b", "2c",
       "3a", "3b", "3c", "3d",
       "4a", "4c", "4b", "4d", "4e", "4f",
       "5a", "5b", "5c" >>

\* The order in which ResNet50.__call__ calls the units.
CallOrder ==
    << "2a", "2b", "2c",
       "3a", "3b", "3c", "3d",
       "4a", "4b", "4c", "4d", "4e", "4f",
       "5a", "5b", "5c" >>

\* The local that ResNet50.__call__ binds to the result of a unit: C2 = x = self.res2c(..)
Capture(block) ==
    CASE block = "2c" -> "C2"
      [] block = "3d" -> "C3"
      [] block = "4f" -> "C4"
      [] block = "5c" -> "C5"
      [] OTHER        -> ""

\* x after the stem: conv1, bn_conv1, relu, max_pool. bn_conv1 is called without
\* training=, so it runs in the Keras learning phase.
StemOut(inp, phase, st) ==
    MaxPooling2D(Relu(BatchNormOut(bn_conv1, Conv2D(inp, 64, 7, 2, "same"), phase = 1, st)))

StemStats(inp, phase, st) ==
    BatchNormStats(bn_conv1, Conv2D(inp, 64, 7, 2, "same"), phase = 1, st)

\* compute_output_shape as it would be with C2 inferred at the stem convolution's stride.
ResNet50ComputeOutputShapeStride2(shape) ==
    LET batch == shape[1]
        H     == shape[2]
        W     == shape[3]
    IN  << <<batch, H \div 2,  W \div 2,  out_channel[1]>>,
           <<batch, H \div 8,  W \div 8,  out_channel[2]>>,
           <<batch, H \div 16, W \div 16, out_channel[3]>>,
           <<batch, H \div 32, W \div 32, out_channel[4]>> >>

\* ResNet50.compute_output_shape(input_shape)
ResNet50ComputeOutputShape(shape) ==
    LET batch == shape[1]
        H     == shape[2]
        W     == shape[3]
    IN  << <<batch, H \div 4,  W \div 4,  out_channel[1]>>,
           <<batch, H \div 8,  W \div 8,  out_channel[2]>>,
           <<batch, H \div 16, W \div 16, out_channel[3]>>,
           <<batch, H \div 32, W \div 32, out_channel[4]>> >>

NoCaptures == [C2 |-> NoTensor, C3 |-> NoTensor, C4 |-> NoTensor, C5 |-> NoTensor]

NoInference == [input |-> <<>>, output |-> <<>>]

----------------------------------------------------------------------------
(* Inputs *)

\* Images fed in Spec: a few sizes, several calls.
CallImages == {Image(1, h, h) : h \in Align..(Align + MaxCallDim - 1)}

ShapeDims == (1..MaxSmall) \cup {Align * k : k \in 1..MaxMult} \cup {DemoDim}

\* Images fed in SpecShapes: many sizes, the demonstration's among them.
ShapeImages == {Image(n, h, w) : n \in (1..MaxBatch) \cup {DemoBatch}, h \in ShapeDims, w \in ShapeDims}

----------------------------------------------------------------------------
(* Actions of the backbone *)

\* A caller enters model(inputs, training=t).
BeginCall(Imgs, maxCalls) ==
    /\ pc \in {"idle", "error"}
    /\ ncalls < maxCalls
    /\ \E img \in Imgs, t \in BOOLEAN :
          /\ inputs' = AsTensor(img)
          /\ training' = t
    /\ pc' = "stem"
    /\ idx' = 1
    /\ x' = NoTensor
    /\ C' = NoCaptures
    /\ ran' = <<>>
    /\ entry_stats' = stats
    /\ ncalls' = ncalls + 1
    /\ UNCHANGED <<res, stats, learning_phase, log, inferred>>
    /\ UNCHANGED unit_vars

\* ResNet50.__call__, the stem
Stem ==
    /\ pc = "stem"
    /\ x' = StemOut(inputs, learning_phase, stats)
    /\ stats' = StemStats(inputs, learning_phase, stats)
    /\ pc' = "unit"
    /\ UNCHANGED <<res, learning_phase, idx, inputs, training, C, ran, entry_stats, log,
                   ncalls, inferred>>
    /\ UNCHANGED unit_vars

\* ResNet50.__call__, one line x = self.res<block>(x, training=training)
Unit ==
    /\ pc = "unit"
    /\ LET block == CallOrder[idx]
           r     == BottleneckCall(res[block], x, training, stats)
       IN  /\ stats' = r.stats
           /\ ran' = Append(ran, block)
           /\ IF r.ok
              THEN /\ x' = r.out
                   /\ C' = IF Capture(block) = "" THEN C
                           ELSE [C EXCEPT ![Capture(block)] = r.out]
                   /\ idx' = idx + 1
                   /\ pc' = IF idx = Len(CallOrder) THEN "return" ELSE "unit"
              ELSE /\ pc' = "error"
                   /\ UNCHANGED <<x, C, idx>>
    /\ UNCHANGED <<res, learning_phase, inputs, training, entry_stats, log, ncalls, inferred>>
    /\ UNCHANGED unit_vars

\* ResNet50.__call__, return (C2, C3, C4, C5)
Return ==
    /\ pc = "return"
    /\ log' = log \cup {[inputs      |-> inputs,
                         training    |-> training,
                         entry_stats |-> entry_stats,
                         out         |-> <<C.C2, C.C3, C.C4, C.C5>>]}
    /\ pc' = "idle"
    /\ UNCHANGED <<res, stats, learning_phase, idx, inputs, training, x, C, ran,
                   entry_stats, ncalls, inferred>>
    /\ UNCHANGED unit_vars

\* Between two forward calls the surrounding program sets the Keras learning phase.
SetLearningPhase ==
    /\ pc \in {"idle", "error"}
    /\ learning_phase' = 1 - learning_phase
    /\ UNCHANGED <<res, stats, pc, idx, inputs, training, x, C, ran, entry_stats, log,
                   ncalls, inferred>>
    /\ UNCHANGED unit_vars

\* A caller asks model.compute_output_shape(inputs.shape) for the tensor it fed.
\* The method reads only self.out_channel and its argument.
ComputeOutputShape ==
    /\ pc = "idle"
    /\ inputs # NoTensor
    /\ inferred' = [input |-> inputs.shape, output |-> ResNet50ComputeOutputShape(inputs.shape)]
    /\ UNCHANGED <<res, stats, learning_phase, pc, idx, inputs, training, x, C, ran,
                   entry_stats, log, ncalls>>
    /\ UNCHANGED unit_vars

UnitIdle ==
    /\ blk = NoBlock
    /\ ustats = <<>>
    /\ ustate = "none"
    /\ uin = NoTensor
    /\ utraining = FALSE
    /\ uadd = <<NoTensor, NoTensor>>
    /\ uout = NoTensor
    /\ ushape = <<>>

\* The state after model = ResNet50()
Init ==
    /\ res = ResNet50Init
    /\ stats = [l \in BackboneLayers(ResNet50Init) |-> <<>>]
    /\ learning_phase = 0
    /\ pc = "idle"
    /\ idx = 1
    /\ inputs = NoTensor
    /\ training = FALSE
    /\ x = NoTensor
    /\ C = NoCaptures
    /\ ran = <<>>
    /\ entry_stats = [l \in BackboneLayers(ResNet50Init) |-> <<>>]
    /\ log = {}
    /\ ncalls = 0
    /\ inferred = NoInference
    /\ UnitIdle

Next ==
    \/ BeginCall(CallImages, MaxCalls)
    \/ Stem
    \/ Unit
    \/ Return
    \/ SetLearningPhase

Spec == Init /\ [][Next]_vars

NextShapes ==
    \/ BeginCall(ShapeImages, 1)
    \/ Stem
    \/ Unit
    \/ Return
    \/ SetLearningPhase
    \/ ComputeOutputShape

SpecShapes == Init /\ [][NextShapes]_vars

----------------------------------------------------------------------------
(* A bottleneck unit on its own *)

\* unit = _Bottleneck([f1, f2, f3], 'u', downsampling=ds, stride=s)
UConstruct ==
    /\ ustate = "none"
    /\ \E f1 \in 1..MaxFilters, f2 \in 1..MaxFilters, f3 \in 1..MaxFilters,
          ds \in BOOLEAN, s \in 1..MaxStride :
          LET self == Bottleneck(<<f1, f2, f3>>, "u", ds, s)
          IN  /\ blk' = self
              /\ ustats' = [l \in BottleneckLayers(self) |-> <<>>]
    /\ ustate' = "built"
    /\ UNCHANGED <<uin, utraining, uadd, uout, ushape>>
    /\ UNCHANGED backbone_vars

\* unit(inputs, training=t)
UCall ==
    /\ ustate = "built"
    /\ \E n \in 1..MaxBatch, h \in 1..MaxUnitDim, w \in 1..MaxUnitDim, c \in 1..MaxChan,
          t \in BOOLEAN :
          LET inp == AsTensor([shape |-> <<n, h, w, c>>, data |-> 1])
              r   == BottleneckCall(blk, inp, t, ustats)
          IN  /\ uin' = inp
              /\ utraining' = t
              /\ uadd' = <<r.main, r.shortcut>>
              /\ uout' = r.out
              /\ ustats' = r.stats
              /\ ustate' = IF r.ok THEN "called" ELSE "failed"
    /\ UNCHANGED <<blk, ushape>>
    /\ UNCHANGED backbone_vars

\* unit.compute_output_shape(inputs.shape)
UComputeOutputShape ==
    /\ ustate \in {"called", "failed"}
    /\ ushape = <<>>
    /\ ushape' = BottleneckComputeOutputShape(blk, uin.shape)
    /\ UNCHANGED <<blk, ustats, ustate, uin, utraining, uadd, uout>>
    /\ UNCHANGED backbone_vars

NextUnit ==
    \/ UConstruct
    \/ UCall
    \/ UComputeOutputShape

SpecUnit == Init /\ [][NextUnit]_vars

----------------------------------------------------------------------------
(* Properties *)

Aligned(shape) == shape[2] % Align = 0 /\ shape[3] % Align = 0

Shapes(out) == <<out[1].shape, out[2].shape, out[3].shape, out[4].shape>>

\* C1: every forward call that returned for an input (N,H,W,3) with H and W
\* positive multiples of 32 returned tensors of shapes (N,H/4,W/4,256),
\* (N,H/8,W/8,512), (N,H/16,W/16,1024), (N,H/32,W/32,2048); the input
\* (2,1024,1024,3) gave (2,256,256,256), (2,128,128,512), (2,64,64,1024),
\* (2,32,32,2048).
C1_OutputShapes ==
    \A r \in log :
        LET s == r.inputs.shape
        IN  /\ Aligned(s) =>
                 Shapes(r.out) = << <<s[1], s[2] \div 4,  s[3] \div 4,  256>>,
                                    <<s[1], s[2] \div 8,  s[3] \div 8,  512>>,
                                    <<s[1], s[2] \div 16, s[3] \div 16, 1024>>,
                                    <<s[1], s[2] \div 32, s[3] \div 32, 2048>> >>
            /\ s = <<2, 1024, 1024, 3>> =>
                 Shapes(r.out) = << <<2, 256, 256, 256>>, <<2, 128, 128, 512>>,
                                    <<2, 64, 64, 1024>>, <<2, 32, 32, 2048>> >>

\* A forward call on the demonstration's input has returned.
C1_Witness ==
    \E r \in log : r.inputs.shape = <<2, 1024, 1024, 3>> /\ r.out[4].shape[4] = 2048

\* C2: the four shapes compute_output_shape returned for an input shape with H
\* and W multiples of 32 are, position by position, the shapes of the tensors
\* the forward call returned for an input of that shape.
C2_InferenceMatchesForward ==
    \A r \in log :
        (inferred.input = r.inputs.shape /\ Aligned(r.inputs.shape)) =>
            \A i \in 1..4 : inferred.output[i] = r.out[i].shape

\* Shape inference and a forward call were both made for an aligned input that
\* is not square, so that height and width are told apart.
C2_Witness ==
    \E r \in log :
        /\ inferred.input = r.inputs.shape
        /\ Aligned(r.inputs.shape)
        /\ r.inputs.shape[2] # r.inputs.shape[3]

\* C3: every step of a forward call in training mode updates the running
\* statistics of the normalization layers it calls (bn_conv1 in the stem, the
\* unit's layers in a unit), and every step of a forward call in inference mode
\* leaves all running statistics unchanged.
C3_ModeControlsStatistics ==
    [][ /\ (pc = "stem" /\ pc' = "unit") =>
              IF training THEN stats'[bn_conv1] # stats[bn_conv1] ELSE stats' = stats
        /\ (pc = "unit" /\ ran' # ran) =>
              IF training
              THEN \A l \in BottleneckLayers(res[CallOrder[idx]]) : stats'[l] # stats[l]
              ELSE stats' = stats
      ]_vars

\* C4 as stated: whenever a unit's forward call succeeded, the output has
\* filters3 channels, and its height and width are ceil(input / stride) with a
\* projection shortcut and the input's otherwise.
C4_UnitOutputShape ==
    ustate = "called" =>
        /\ uout.shape[4] = blk.filters[3]
        /\ \A d \in {2, 3} :
              uout.shape[d] = IF blk.downsampling THEN Ceil(uin.shape[d], blk.stride)
                              ELSE uin.shape[d]

\* C4 amended: the output has filters3 channels unless the unit has no
\* projection shortcut and filters3 = 1, when the addition broadcasts the main
\* path over the input and the output has the input's channel count; height
\* and width are as stated.
C4_UnitOutputShapeBroadcast ==
    ustate = "called" =>
        /\ uout.shape[4] = IF ~blk.downsampling /\ blk.filters[3] = 1 THEN uin.shape[4]
                           ELSE blk.filters[3]
        /\ \A d \in {2, 3} :
              uout.shape[d] = IF blk.downsampling THEN Ceil(uin.shape[d], blk.stride)
                              ELSE uin.shape[d]

\* A unit with a projection and a stride that does not divide the input height
\* has been called, and so has one without projection whose addition broadcast.
C4_Witness ==
    /\ ustate = "called"
    /\ \/ blk.downsampling /\ blk.stride > 1 /\ uin.shape[2] % blk.stride # 0
       \/ ~blk.downsampling /\ blk.stride > 1 /\ uin.shape[2] > 1

\* C5: in a unit with a projection shortcut and stride s > 1 the two operands
\* of the residual addition have the same shape, with filters3 channels and
\* height and width reduced from the input's by the same factor.
C5_ProjectionPathsAgree ==
    (ustate \in {"called", "failed"} /\ blk.downsampling /\ blk.stride > 1) =>
        /\ uadd[1].shape = uadd[2].shape
        /\ uadd[1].shape[4] = blk.filters[3]
        /\ ustate = "called"

\* Such a unit was called on an input higher than one row, which its stride
\* does not divide.
C5_Witness ==
    /\ ustate = "called"
    /\ blk.downsampling
    /\ blk.stride > 1
    /\ uin.shape[2] > 1
    /\ uin.shape[2] % blk.stride # 0

\* C6: two forward calls in inference mode on the same input, entered with the
\* same running statistics, returned the same (C2, C3, C4, C5).
C6_InferenceDeterministic ==
    \A r1 \in log, r2 \in log :
        (/\ ~r1.training
         /\ ~r2.training
         /\ r1.inputs = r2.inputs
         /\ r1.entry_stats = r2.entry_stats) => r1.out = r2.out

\* C7: the backbone holds exactly 16 units in stages of 3, 4, 6 and 3 with the
\* stage's widths in every unit, first-unit strides 1, 2, 2, 2, and only the
\* first unit of a stage has a projection shortcut or a stride other than 1.
C7_StageLayout ==
    LET stages == << {"2a", "2b", "2c"},
                     {"3a", "3b", "3c", "3d"},
                     {"4a", "4b", "4c", "4d", "4e", "4f"},
                     {"5a", "5b", "5c"} >>
        first  == <<"2a", "3a", "4a", "5a">>
        widths == << <<64, 64, 256>>, <<128, 128, 512>>, <<256, 256, 1024>>,
                     <<512, 512, 2048>> >>
        stride == <<1, 2, 2, 2>>
    IN  /\ Cardinality(DOMAIN res) = 16
        /\ DOMAIN res = UNION {stages[k] : k \in 1..4}
        /\ \A k \in 1..4 : \A b \in stages[k] :
              /\ res[b].filters = widths[k]
              /\ res[b].block = b
              /\ IF b = first[k]
                 THEN res[b].downsampling /\ res[b].stride = stride[k]
                 ELSE ~res[b].downsampling /\ res[b].stride = 1

\* A forward call has run all the units the backbone holds.
C7_Witness ==
    pc = "return" /\ {ran[i] : i \in 1..Len(ran)} = DOMAIN res

\* The normalization layers a tensor went through.
LayersOf(t) == {p[1] : p \in t.norm}

\* The normalization layers of the stem and of the units up to the n-th.
LayersUpTo(order, n) ==
    {bn_conv1} \cup UNION {BottleneckLayers(res[order[i]]) : i \in 1..n}

\* C8: in a forward call the units run in the order 2a,2b,2c,3a,..,5c, once
\* each, each on the output of the one before it (the stem before 2a); C2, C3,
\* C4, C5 are the outputs of 2c, 3d, 4f, 5c, and each is captured before a
\* unit of the next stage runs.
C8_ForwardOrder ==
    LET order == << "2a", "2b", "2c", "3a", "3b", "3c", "3d",
                    "4a", "4b", "4c", "4d", "4e", "4f", "5a", "5b", "5c" >>
        n     == Len(ran)
    IN  /\ n <= 16
        /\ \A i \in 1..n : ran[i] = order[i]
        /\ pc = "return" => n = 16
        /\ pc = "unit" => (idx = n + 1 /\ LayersOf(x) = LayersUpTo(order, n))
        /\ (C.C2 # NoTensor) = (n >= 3)
        /\ (C.C3 # NoTensor) = (n >= 7)
        /\ (C.C4 # NoTensor) = (n >= 13)
        /\ (C.C5 # NoTensor) = (n >= 16)
        /\ n >= 3  => LayersOf(C.C2) = LayersUpTo(order, 3)
        /\ n >= 7  => LayersOf(C.C3) = LayersUpTo(order, 7)
        /\ n >= 13 => LayersOf(C.C4) = LayersUpTo(order, 13)
        /\ n >= 16 => LayersOf(C.C5) = LayersUpTo(order, 16)

\* A forward call has run its last unit and holds the four captured outputs.
C8_Witness ==
    pc = "return" /\ Len(ran) = 16 /\ C.C5 = x /\ C.C2 # C.C3

\* C9: every unit without a projection shortcut has stride 1 and is handed an
\* input with filters3 channels, the two operands of every residual addition
\* have the same shape for every positive input height and width, and the
\* forward call never ends in a shape mismatch.
C9_NoShapeMismatch ==
    /\ pc # "error"
    /\ \A b \in DOMAIN res : ~res[b].downsampling => res[b].stride = 1
    /\ pc = "unit" =>
          LET self == res[CallOrder[idx]]
              r    == BottleneckCall(self, x, training, stats)
          IN  /\ ~self.downsampling => x.shape[4] = self.filters[3]
              /\ r.main.shape = r.shortcut.shape

\* A forward call returned for an input whose height and width are not
\* multiples of 32.
C9_Witness ==
    \E r \in log : r.inputs.shape[2] % Align # 0 /\ r.inputs.shape[3] % Align # 0

\* C10: for a unit with a projection shortcut, the shape compute_output_shape
\* returns for an input shape is the shape of the tensor the forward call
\* returns for that input.
C10_UnitInferenceMatchesForward ==
    (ustate = "called" /\ ushape # <<>> /\ blk.downsampling) => ushape = uout.shape

====
